---- MODULE Spec2Model ----
(***************************************************************************)
(* Model of the stdi input library (src/library.c, and the header-only     *)
(* copy of the same functions in src/unnamed/part_001): fread_line,        *)
(* raw_read_line, read_line and read_char, running over a finite standard  *)
(* input stream and a heap of malloc'ed blocks.                            *)
(*                                                                         *)
(* Each function is translated statement by statement.  The loop bodies of *)
(* the two line readers are split at the points where the code reads or    *)
(* allocates, so that every intermediate state of a call is a state of the *)
(* model.                                                                  *)
(***************************************************************************)
EXTENDS Integers, Sequences, FiniteSets, TLC

(* ------------------------------ bounds --------------------------------- *)

\* longest input stream
MaxLen == 4
\* number of library calls in one behaviour
MaxCalls == 2
\* raw_read_line keeps storing an indeterminate `c` after end-of-stream;
\* the model follows it for this many stored bytes
MaxJunk == 1

(* ------------------------- program constants --------------------------- *)

\* library.c:6-8, built with -DSTDI_READ_LINE_BUFFER_SIZE=2 (default 250)
STDI_READ_LINE_BUFFER_SIZE == 2
\* library.c:10-12
EOF == -1
\* '\0'
NUL == 0
\* '\n'
NEWLINE == 10
\* the NULL pointer
NULL == 0

C == STDI_READ_LINE_BUFFER_SIZE

\* size_t arithmetic is modulo 2^64; the model's integers are 32 bit, so the
\* modulus is represented by 2^30, larger than every capacity of the model
SIZE_MODULUS == 1073741824

\* byte values a stream is made of: NUL, newline, two letters, 0xFF
Bytes == {0, 10, 97, 98, 255}
\* content of a buffer cell that was allocated and never written
UNINIT == 256

(* ------------------------------ state ---------------------------------- *)

VARIABLES
    stream,      \* the bytes of standard input, fixed for a behaviour
    pos,         \* number of bytes of stream already consumed by SYS_read
    charSigned,  \* whether plain char is signed on this build
    func,        \* the library function being executed, or "none"
    pc,          \* position inside it
    buffer,      \* the local pointer `buffer`: a block id, or NULL
    mem,         \* content of the block `buffer` points to; Len(mem) = its size
    written,     \* local `written`
    length,      \* local `length`
    result,      \* value returned by the last line reader: block id or NULL
    chr,         \* value returned by the last read_char (a byte)
    live,        \* blocks currently allocated
    freed,       \* blocks that were released
    nextId,      \* next fresh block id
    heapErr,     \* a free or an access of a block that is not live happened
    oob,         \* a write outside the block happened
    calls,       \* number of calls started
    failure,     \* what failed in the current call: none, malloc, realloc, read
    shortRead,   \* a RawRead of this call returned fewer bytes than it could
    startPos,    \* pos when the current call started
    grows,       \* successful reallocs of the current call
    cDelivered   \* raw_read_line: the `c` last tested was stored by fread_line

vars == <<stream, pos, charSigned, func, pc, buffer, mem, written, length,
          result, chr, live, freed, nextId, heapErr, oob, calls, failure,
          shortRead, startPos, grows, cDelivered>>

(* ----------------------------- helpers --------------------------------- *)

RECURSIVE SeqsUpTo(_, _)
SeqsUpTo(S, n) ==
    IF n = 0 THEN {<< >>}
    ELSE LET shorter == SeqsUpTo(S, n - 1)
         IN  shorter \cup {Append(s, b) : s \in {t \in shorter : Len(t) = n - 1}, b \in S}

Min(a, b) == IF a < b THEN a ELSE b

\* the value of a char holding byte b when it is promoted to int
CharVal(signed, b) == IF signed /\ b >= 128 THEN b - 256 ELSE b

\* a - b in size_t
SizeSub(a, b) == (a - b + SIZE_MODULUS) % SIZE_MODULUS

\* bytes of the stream not yet consumed
Avail == Len(stream) - pos

\* a block of n uninitialised bytes
FreshBlock(n) == [k \in 1..n |-> UNINIT]

\* a slip of Resized: a new block is taken and the old content is not copied
Resized_dropsContent(m, n) == FreshBlock(n)

\* the content of a block after realloc to n bytes
Resized(m, n) == [k \in 1..n |-> IF k <= Len(m) THEN m[k] ELSE UNINIT]

\* m with byte v stored at C index i (index 0 is the first byte)
Store(m, i, v) == IF i + 1 \in DOMAIN m THEN [m EXCEPT ![i + 1] = v] ELSE m

\* m with the bytes s stored from C index off on
StoreAll(m, off, s) ==
    [k \in DOMAIN m |-> IF k - 1 >= off /\ k - 1 < off + Len(s) THEN s[k - off] ELSE m[k]]

\* the bytes of m before C index n
Prefix(m, n) == SubSeq(m, 1, Min(n, Len(m)))

\* the C string held by block m: the bytes before the first NUL
RECURSIVE StrLenFrom(_, _)
StrLenFrom(m, k) ==
    IF k > Len(m) THEN Len(m)
    ELSE IF m[k] = NUL THEN k - 1
    ELSE StrLenFrom(m, k + 1)

Terminated(m) == \E k \in DOMAIN m : m[k] = NUL
CStr(m) == SubSeq(m, 1, StrLenFrom(m, 1))

(* ----------------- the conditions and sizes of the code ---------------- *)

\* a slip of InitialCap: no byte reserved for the terminator
InitialCap_noTerminator == STDI_READ_LINE_BUFFER_SIZE

\* size of the first allocation of both line readers
InitialCap == STDI_READ_LINE_BUFFER_SIZE + 1

\* `if (written == STDI_READ_LINE_BUFFER_SIZE)`
NeedGrow(w) == w = STDI_READ_LINE_BUFFER_SIZE

\* a slip of GrowCap: the buffer is doubled instead of grown by one chunk
GrowCap_doubling(len) == 2 * len + 1

\* size passed to realloc
GrowCap(len) == STDI_READ_LINE_BUFFER_SIZE + len + 1

\* read_line: `if (written == 0)`
NeedRead(w) == w = 0

\* a slip of ReadSize: the byte kept for the terminator is given to the read
ReadSize_fillsTerminator(len) == SizeSub(STDI_READ_LINE_BUFFER_SIZE + 1, len)

\* read_line: size passed to fread_line
ReadSize(len) == SizeSub(STDI_READ_LINE_BUFFER_SIZE, len)

\* read_line: `buffer[length - 1] == EOF || buffer[length - 1] == '\n'`
IsLineEnd(ch) == ch = EOF \/ ch = NEWLINE

\* a slip of EofTermIndex: the terminator lands one byte too far
EofTermIndex_offByOne(len) == len + 1

\* read_line: index of the terminator stored when fread_line returned 0
EofTermIndex(len) == len

\* a slip of LineEndIndex: the terminator is appended, the newline stays
LineEndIndex_keepsNewline(len) == len

\* read_line: index of the terminator that replaces the line end
LineEndIndex(len) == len - 1

\* raw_read_line: `c == '\0' || c == EOF`
RawIsEnd(ch) == ch = NUL \/ ch = EOF

\* a slip of ReadCharResult: bytes_read is not checked
ReadCharResult_unchecked(n, c) == c

\* read_char: the returned char, given bytes_read and the byte in c
ReadCharResult(n, c) == IF n = 1 THEN c ELSE NUL

\* a slip of HeapAfterFree: the failure path forgets the free
HeapAfterFree_forgets(p) == [live |-> live, freed |-> freed, err |-> heapErr]

\* what free(p) does to the heap
HeapAfterFree(p) ==
    [live |-> live \ {p}, freed |-> freed \cup {p}, err |-> heapErr \/ p \notin live]

(* ------------------------------- Init ---------------------------------- *)

Init ==
    /\ stream \in SeqsUpTo(Bytes, MaxLen)
    /\ pos = 0
    /\ charSigned \in BOOLEAN
    /\ func = "none"
    /\ pc = "idle"
    /\ buffer = NULL
    /\ mem = << >>
    /\ written = 0
    /\ length = 0
    /\ result = NULL
    /\ chr = NUL
    /\ live = {}
    /\ freed = {}
    /\ nextId = 1
    /\ heapErr = FALSE
    /\ oob = FALSE
    /\ calls = 0
    /\ failure = "none"
    /\ shortRead = FALSE
    /\ startPos = 0
    /\ grows = 0
    /\ cDelivered = TRUE

(* ------------------------- common call steps --------------------------- *)

\* entry of raw_read_line and read_line: malloc, NULL check, counters
Enter(f, first) ==
    /\ pc = "idle"
    /\ calls < MaxCalls
    /\ calls' = calls + 1
    /\ func' = f
    /\ startPos' = pos
    /\ shortRead' = FALSE
    /\ written' = 0
    /\ length' = 0
    /\ grows' = 0
    /\ cDelivered' = TRUE
    /\ \/ \* malloc returns NULL
          /\ failure' = "malloc"
          /\ buffer' = NULL
          /\ mem' = << >>
          /\ result' = NULL
          /\ pc' = "done"
          /\ UNCHANGED <<live, nextId>>
       \/ /\ failure' = "none"
          /\ buffer' = nextId
          /\ mem' = FreshBlock(InitialCap)
          /\ live' = live \cup {nextId}
          /\ nextId' = nextId + 1
          /\ result' = NULL
          /\ pc' = first
    /\ UNCHANGED <<stream, pos, charSigned, chr, freed, heapErr, oob>>

\* the `if (written == SIZE)` block at the top of both loops
Grow(f, here, next) ==
    /\ func = f
    /\ pc = here
    /\ IF NeedGrow(written)
       THEN \/ \* realloc returns NULL: free(buffer); return NULL
               LET h == HeapAfterFree(buffer) IN
               /\ failure' = "realloc"
               /\ live' = h.live
               /\ freed' = h.freed
               /\ heapErr' = h.err
               /\ result' = NULL
               /\ pc' = "done"
               /\ UNCHANGED <<buffer, mem, written, nextId, grows>>
            \/ \* realloc moves the block
               /\ heapErr' = (heapErr \/ buffer \notin live)
               /\ live' = (live \ {buffer}) \cup {nextId}
               /\ freed' = freed \cup {buffer}
               /\ buffer' = nextId
               /\ nextId' = nextId + 1
               /\ mem' = Resized(mem, GrowCap(length))
               /\ written' = 0
               /\ grows' = grows + 1
               /\ pc' = next
               /\ UNCHANGED <<failure, result>>
       ELSE /\ pc' = next
            /\ UNCHANGED <<buffer, mem, written, live, freed, nextId, heapErr,
                           failure, result, grows>>
    /\ UNCHANGED <<stream, pos, charSigned, func, length, chr, oob, calls,
                   shortRead, startPos, cDelivered>>

\* a slip of ReadFailed: the failure is noted and the read is issued again
ReadFailed_retries ==
    /\ failure' = "read"
    /\ UNCHANGED <<live, freed, heapErr, result, pc>>

\* `free(buffer); return NULL;` after fread_line returned -1
ReadFailed ==
    LET h == HeapAfterFree(buffer) IN
    /\ failure' = "read"
    /\ live' = h.live
    /\ freed' = h.freed
    /\ heapErr' = h.err
    /\ result' = NULL
    /\ pc' = "done"

(* ------------------------------ read_line ------------------------------ *)

read_line_enter == Enter("read_line", "rl_grow")

read_line_grow == Grow("read_line", "rl_grow", "rl_read")

\* the `if (written == 0)` block
read_line_read ==
    /\ func = "read_line"
    /\ pc = "rl_read"
    /\ IF NeedRead(written)
       THEN \/ /\ ReadFailed
               /\ UNCHANGED <<pos, buffer, mem, written, length, nextId, oob, shortRead>>
            \/ \E n \in 0..Min(ReadSize(length), Avail) :
               \* a blocking read returns 0 only at end of stream or for size 0
               /\ n = 0 => Min(ReadSize(length), Avail) = 0
               /\ pos' = pos + n
               /\ heapErr' = (heapErr \/ buffer \notin live)
               /\ shortRead' = (shortRead \/ n < Min(ReadSize(length), Avail))
               /\ IF n = 0
                  THEN /\ mem' = Store(mem, EofTermIndex(length), NUL)
                       /\ oob' = (oob \/ EofTermIndex(length) >= Len(mem))
                       /\ result' = buffer
                       /\ pc' = "done"
                       /\ UNCHANGED <<written, length>>
                  ELSE /\ mem' = StoreAll(mem, length, SubSeq(stream, pos + 1, pos + n))
                       /\ oob' = (oob \/ length + n > Len(mem))
                       /\ written' = written + n
                       /\ length' = length + n
                       /\ pc' = "rl_check"
                       /\ UNCHANGED result
               /\ UNCHANGED <<buffer, live, freed, nextId, failure>>
       ELSE /\ pc' = "rl_check"
            /\ UNCHANGED <<pos, buffer, mem, written, length, result, live, freed,
                           nextId, heapErr, oob, failure, shortRead>>
    /\ UNCHANGED <<stream, charSigned, func, chr, calls, startPos, grows, cDelivered>>

\* the `if (length > 0 && (... == EOF || ... == '\n'))` block
read_line_check ==
    /\ func = "read_line"
    /\ pc = "rl_check"
    /\ IF length > 0 /\ length <= Len(mem) /\ IsLineEnd(CharVal(charSigned, mem[length]))
       THEN /\ mem' = Store(mem, LineEndIndex(length), NUL)
            /\ result' = buffer
            /\ pc' = "done"
       ELSE /\ pc' = "rl_grow"
            /\ UNCHANGED <<mem, result>>
    /\ heapErr' = (heapErr \/ (length > 0 /\ buffer \notin live))
    /\ UNCHANGED <<stream, pos, charSigned, func, buffer, written, length, chr,
                   live, freed, nextId, oob, calls, failure, shortRead, startPos,
                   grows, cDelivered>>

(* ---------------------------- raw_read_line ---------------------------- *)

raw_read_line_enter == Enter("raw_read_line", "rr_grow")

raw_read_line_grow == Grow("raw_read_line", "rr_grow", "rr_read")

\* fread_line(&c, 1), the failure check, the end test and the store
raw_read_line_read ==
    /\ func = "raw_read_line"
    /\ pc = "rr_read"
    /\ \/ /\ ReadFailed
          /\ UNCHANGED <<pos, buffer, mem, written, length, nextId, oob, cDelivered>>
       \/ \E c \in Bytes :
          \* c is the byte delivered, or indeterminate when nothing was read
          /\ Avail > 0 => c = stream[pos + 1]
          /\ pos' = pos + Min(1, Avail)
          /\ cDelivered' = (Avail > 0)
          /\ heapErr' = (heapErr \/ buffer \notin live)
          /\ oob' = (oob \/ length >= Len(mem))
          /\ IF RawIsEnd(CharVal(charSigned, c))
             THEN /\ mem' = Store(mem, length, NUL)
                  /\ result' = buffer
                  /\ pc' = "done"
                  /\ UNCHANGED <<written, length>>
             ELSE /\ (Avail = 0 => length - (pos - startPos) < MaxJunk)
                  /\ mem' = Store(mem, length, c)
                  /\ written' = written + 1
                  /\ length' = length + 1
                  /\ pc' = "rr_grow"
                  /\ UNCHANGED result
          /\ UNCHANGED <<buffer, live, freed, nextId, failure>>
    /\ UNCHANGED <<stream, charSigned, func, chr, calls, shortRead, startPos, grows>>

(* ------------------------------ read_char ------------------------------ *)

read_char ==
    /\ pc = "idle"
    /\ calls < MaxCalls
    /\ calls' = calls + 1
    /\ func' = "read_char"
    /\ startPos' = pos
    /\ shortRead' = FALSE
    /\ \/ \* fread_line returns -1
          /\ failure' = "read"
          /\ chr' = ReadCharResult(-1, UNINIT)
          /\ UNCHANGED pos
       \/ /\ failure' = "none"
          /\ pos' = pos + Min(1, Avail)
          /\ chr' = ReadCharResult(Min(1, Avail),
                                   IF Avail > 0 THEN stream[pos + 1] ELSE UNINIT)
    /\ pc' = "done"
    /\ UNCHANGED <<stream, charSigned, buffer, mem, written, length, result,
                   live, freed, nextId, heapErr, oob, grows, cDelivered>>

(* ------------------------------ the caller ----------------------------- *)

\* the caller takes the result, frees a returned line, and may call again
caller_release ==
    /\ pc = "done"
    /\ calls < MaxCalls
    /\ pc' = "idle"
    /\ func' = "none"
    /\ IF func # "read_char" /\ result # NULL
       THEN LET h == HeapAfterFree(result) IN
            /\ live' = h.live
            /\ freed' = h.freed
            /\ heapErr' = h.err
       ELSE UNCHANGED <<live, freed, heapErr>>
    /\ buffer' = NULL
    /\ mem' = << >>
    /\ result' = NULL
    /\ written' = 0
    /\ length' = 0
    /\ failure' = "none"
    /\ shortRead' = FALSE
    /\ grows' = 0
    /\ cDelivered' = TRUE
    /\ UNCHANGED <<stream, pos, charSigned, chr, nextId, oob, calls, startPos>>

Next ==
    \/ read_line_enter
    \/ read_line_grow
    \/ read_line_read
    \/ read_line_check
    \/ raw_read_line_enter
    \/ raw_read_line_grow
    \/ raw_read_line_read
    \/ read_char
    \/ caller_release

Spec == Init /\ [][Next]_vars

(* ------------------------ vocabulary of the claims --------------------- *)

\* the input the current call started with
Rest == SubSeq(stream, startPos + 1, Len(stream))

NoByte(s, b) == \A i \in DOMAIN s : s[i] # b

Returned(f) == func = f /\ pc = "done"

\* the call ran with no failed malloc, realloc or read, and every RawRead
\* returned all the bytes available up to the requested size
FullReads == failure = "none" /\ ~shortRead

\* Rest is n bytes without a newline, followed by a newline that ends it
LineOf(n) ==
    /\ Len(Rest) = n + 1
    /\ Rest[n + 1] = NEWLINE
    /\ NoByte(SubSeq(Rest, 1, n), NEWLINE)

\* the returned buffer holds exactly the bytes s, then the terminator
Holds(s) ==
    /\ result # NULL
    /\ result \in live
    /\ Len(mem) > Len(s)
    /\ Prefix(mem, Len(s)) = s
    /\ mem[Len(s) + 1] = NUL

(* -------------------------------- claims ------------------------------- *)

\* C1: when the input of a read_line call is at most C bytes and its last
\* byte is its only newline, and every RawRead returns all the bytes
\* available up to the requested size, the loop never starts a second
\* iteration and read_line returns a live buffer that holds exactly the
\* bytes before the newline followed by the terminator, with no newline in
\* it (and, when the line has no NUL byte, this is the returned C string).
C1_FirstChunkLine ==
    \A n \in 0..(C - 1) :
        (func = "read_line" /\ FullReads /\ LineOf(n)) =>
            /\ (pc = "rl_grow" => length = 0)
            /\ (pc = "done" =>
                    /\ Holds(SubSeq(Rest, 1, n))
                    /\ NoByte(Prefix(mem, n), NEWLINE)
                    /\ (NoByte(Rest, NUL) => CStr(mem) = SubSeq(Rest, 1, n)))

\* C1 witness: a full first chunk ending in its only newline was returned
C1_Witness ==
    /\ Returned("read_line") /\ FullReads /\ LineOf(C - 1)
    /\ result # NULL
    /\ CStr(mem) = SubSeq(Rest, 1, C - 1)

\* C2 (as claimed): when the input of a read_line call is L > C bytes with
\* no newline and no EOF-marker byte, followed by end-of-stream, and every
\* RawRead returns all the bytes available up to the requested size, the
\* returned buffer holds exactly those L bytes in order.
C2_LongLine ==
    (Returned("read_line") /\ FullReads /\ Len(Rest) > C
        /\ NoByte(Rest, NEWLINE) /\ NoByte(Rest, 255)) => Holds(Rest)

\* C3 (as claimed): whenever read_line returns a buffer, the returned text
\* contains no newline byte.
C3_NoNewlineInLine ==
    (Returned("read_line") /\ result # NULL) => NoByte(CStr(mem), NEWLINE)

\* C4: when the input of a read_line call is empty, so that the first
\* RawRead returns 0, read_line returns a live, non-NULL buffer with the
\* terminator at index 0: the empty text.
C4_EmptyStream ==
    (Returned("read_line") /\ failure = "none" /\ Len(Rest) = 0) =>
        /\ Holds(<< >>)
        /\ CStr(mem) = << >>
        /\ pos = startPos

\* C4 witness: read_line returned on an exhausted stream
C4_Witness ==
    /\ Returned("read_line") /\ failure = "none" /\ Len(Rest) = 0
    /\ result # NULL /\ mem[1] = NUL

\* C5: whenever read_line or raw_read_line returns NULL (failed malloc,
\* failed realloc at any growth step, failed RawRead at any iteration), no
\* block is left allocated, and at no point of any call is a block freed
\* twice or accessed after it was freed.
C5_NoLeakOnFailure ==
    /\ ~heapErr
    /\ (pc = "done" /\ func \in {"read_line", "raw_read_line"} /\ result = NULL) =>
            /\ failure # "none"
            /\ live = {}
    /\ (pc = "done" /\ func \in {"read_line", "raw_read_line"} /\ result # NULL) =>
            /\ failure = "none"
            /\ live = {result}

\* C5 witness: a realloc failed in the middle of growth and the call
\* returned NULL after releasing the block it had
C5_Witness ==
    /\ Returned("raw_read_line") /\ failure = "realloc" /\ result = NULL
    /\ length = C /\ buffer \in freed /\ live = {}

\* C6: in every state of read_line and raw_read_line that has a buffer, the
\* size of the block is at least length + 1, and no store of a content byte
\* or of a terminator ever fell outside the block.
C6_CapacityInvariant ==
    /\ ~oob
    /\ (func \in {"read_line", "raw_read_line"} /\ buffer # NULL) =>
            Len(mem) >= length + 1

\* C6 witness: raw_read_line has grown its buffer and stored a byte beyond
\* the first chunk
C6_Witness ==
    /\ func = "raw_read_line" /\ pc = "rr_grow"
    /\ length = 2 * C /\ written = C /\ Len(mem) = 2 * C + 1

\* C7 (as claimed): when the input of a read_line call is exactly C, or
\* exactly C - 1, bytes that are neither a newline nor 0xFF, followed by a
\* newline, read_line returns exactly those bytes and has consumed the
\* stream up to and including the newline.
C7_ChunkBoundary ==
    \A n \in {C - 1, C} :
        (Returned("read_line") /\ FullReads /\ LineOf(n) /\ NoByte(Rest, 255)) =>
            /\ Holds(SubSeq(Rest, 1, n))
            /\ pos = startPos + n + 1

\* C8: a call of read_char made when i - 1 bytes of the stream are consumed
\* returns the i-th byte and consumes exactly that byte; made when the
\* stream is exhausted it returns the zero byte; and a call whose RawRead
\* fails returns the zero byte and consumes nothing.
C8_ReadChar ==
    Returned("read_char") =>
        IF failure = "read" THEN chr = NUL /\ pos = startPos
        ELSE IF startPos < Len(stream)
             THEN chr = stream[startPos + 1] /\ pos = startPos + 1
             ELSE chr = NUL /\ pos = startPos

\* C8 witness: the second of two read_char calls returned the second byte
C8_Witness ==
    /\ Returned("read_char") /\ failure = "none" /\ calls = 2
    /\ startPos = 1 /\ pos = 2 /\ chr = stream[2] /\ chr # NUL

\* C9 (as claimed): when the input of a raw_read_line call contains a
\* newline, preceded by bytes that are neither NUL nor 0xFF, the returned
\* text is exactly the bytes before the first newline and has no newline
\* byte in it.
C9_RawStopsAtNewline ==
    \A n \in 0..MaxLen :
        (Returned("raw_read_line") /\ result # NULL /\ Len(Rest) > n
            /\ Rest[n + 1] = NEWLINE
            /\ \A b \in {NEWLINE, NUL, 255} : NoByte(SubSeq(Rest, 1, n), b)) =>
            /\ CStr(mem) = SubSeq(Rest, 1, n)
            /\ NoByte(CStr(mem), NEWLINE)

\* C10 (as claimed): every iteration of read_line's loop either issues a
\* RawRead or returns; read_line is never at the top of its loop with
\* bytes in the buffer, nothing to grow and nothing to read, which is the
\* state the loop cannot leave.
C10_NoSpin ==
    ~(/\ func = "read_line" /\ pc = "rl_grow" /\ length > 0
      /\ ~NeedGrow(written) /\ ~NeedRead(written))

\* C11 (as claimed): the byte that raw_read_line compares against the null
\* byte and the EOF marker is always one that the RawRead of that iteration
\* delivered; in particular at end-of-stream, where RawRead returns 0 and
\* stores nothing, no indeterminate byte is tested or stored.
C11_TestedByteDelivered ==
    func = "raw_read_line" => cDelivered

\* C12 (as claimed): whenever read_line is about to issue a RawRead (the
\* window counter is 0), the size it requests at offset length is
\* C - (length mod C); right after a growth step that is C bytes.
C12_ReadRequestSize ==
    (func = "read_line" /\ pc = "rl_read" /\ NeedRead(written)) =>
        ReadSize(length) = C - (length % C)

\* C13: whenever read_line is about to issue a RawRead, length is at most
\* C, so the size_t subtraction that computes the requested size does not
\* wrap, and offset plus requested size is at most capacity - 1: the read
\* stays inside the block and off the byte kept for the terminator.
C13_ReadWithinBuffer ==
    /\ func = "read_line" => length <= C
    /\ (func = "read_line" /\ pc = "rl_read" /\ NeedRead(written)) =>
            /\ ReadSize(length) = C - length
            /\ ReadSize(length) <= C
            /\ length + ReadSize(length) <= Len(mem) - 1

\* C13 witness: read_line is about to read right after a growth step, with
\* length = C, where the subtraction gives 0
C13_Witness ==
    /\ func = "read_line" /\ pc = "rl_read" /\ NeedRead(written)
    /\ length = C /\ grows = 1 /\ Len(mem) = 2 * C + 1

C15_OnlyNewlineEndsLine ==
    (Returned("read_line") /\ result # NULL) =>
        LET got == SubSeq(stream, startPos + 1, pos)
        IN  IF got # << >> /\ got[Len(got)] = NEWLINE
            THEN Prefix(mem, Len(got) - 1) = SubSeq(got, 1, Len(got) - 1)
            ELSE Holds(got)

\* C16: once a RawRead of read_line or raw_read_line has failed, the call
\* has returned NULL with no block left allocated, and the step that
\* follows consumes nothing from the stream and allocates nothing.
C16_NoRetry ==
    [][(failure = "read" /\ func \in {"read_line", "raw_read_line"}) =>
            /\ pc = "done"
            /\ result = NULL
            /\ live = {}
            /\ pos' = pos
            /\ nextId' = nextId]_vars

\* C16 witness: the RawRead that read_line issues after a growth step
\* failed, and the call returned NULL
C16_Witness ==
    /\ Returned("read_line") /\ failure = "read" /\ result = NULL
    /\ grows = 1 /\ length = C /\ live = {}

\* C17: in raw_read_line the capacity is (k + 1) * C + 1 after k growth
\* steps and length = k * C + window counter; the window counter never
\* exceeds C and is below C whenever a byte is read, so a growth step
\* happens exactly when it equals C; a returned line of length L took at
\* most L / C reallocations.
C17_AdditiveGrowth ==
    (func = "raw_read_line" /\ buffer # NULL) =>
        /\ Len(mem) = (grows + 1) * C + 1
        /\ length = grows * C + written
        /\ written <= C
        /\ (pc = "rr_read" => written < C)
        /\ ((pc = "done" /\ result # NULL) => grows <= length \div C)

\* C17 witness: a line of 2 * C bytes was returned after two growth steps
C17_Witness ==
    /\ Returned("raw_read_line") /\ result # NULL
    /\ grows = 2 /\ length = 2 * C /\ Len(mem) = 3 * C + 1

====
